---- MODULE Spec2Model ----
(***************************************************************************)
(* Membership subscription state machine (api/membership/models.py), the   *)
(* user fields it writes (api/auth/models.py) and the refresh-token        *)
(* compare-and-swap guard (api/auth/models.py).                            *)
(*                                                                         *)
(* Optional values (Python None / SQL NULL) are modelled as sequences of   *)
(* length 0 or 1: None is <<>> and a present value x is <<x>>.             *)
(***************************************************************************)
EXTENDS Integers, Sequences, FiniteSets, TLC

None == <<>>

Some(x) == <<x>>

(***************************************************************************)
(* Bounds of the exploration.                                              *)
(***************************************************************************)
\* subscribe jobs started in one behaviour
MaxJobs == 3

\* issue_refresh_token calls started in one behaviour
MaxTokenCalls == 3

\* monthly prices 0..MaxPrice are tried by the pure-function specification
MaxPrice == 2

\* requests that touch the gateway customer start while the gateway holds
\* fewer customers than this
MaxCustomers == 2
MaxRaceJobs == 2
MaxFrameCalls == 3

Users == {"u1", "u2"}

Workers == {"w1", "w2"}

\* the worker of the specifications that run one call at a time
Sequential == {"w1"}

\* Refresh-token texts.  Every text handed to issue_refresh_token is newly
\* minted (RefreshToken.for_user gives each token its own jti), so the n-th
\* text minted is <<n>>; <<0>> is a text stored before the behaviour starts
\* and <<>> the empty text of a user who never logged in.
EmptyText == <<>>

OldText == <<0>>

MintedText(n) == <<n>>

\* wall-clock readings <<year, month, day, hour>>, compared lexicographically
Instants ==
    { <<2024, 3, 15, 9>>, <<2024, 3, 20, 9>>, <<2024, 4, 1, 9>>,
      <<2025, 3, 15, 9>> }

(***************************************************************************)
(* Membership catalog: rows of the Membership table.                       *)
(***************************************************************************)
Tiers == {"free", "basic", "pro", "legacy"}

NoTier == "no_tier"

Membership ==
    [ t \in Tiers |->
        CASE t = "free" ->
               [ is_initial |-> TRUE, price_month |-> None,
                 stripe_monthly_product_name |-> None,
                 profile_type |-> "client" ]
          [] t = "basic" ->
               [ is_initial |-> FALSE, price_month |-> Some(1),
                 stripe_monthly_product_name |-> Some("basic_monthly"),
                 profile_type |-> "client" ]
          [] t = "pro" ->
               [ is_initial |-> FALSE, price_month |-> Some(2),
                 stripe_monthly_product_name |-> Some("pro_monthly"),
                 profile_type |-> "freelancer" ]
          [] t = "legacy" ->
               [ is_initial |-> FALSE, price_month |-> None,
                 stripe_monthly_product_name |-> Some("pro_monthly"),
                 profile_type |-> "adviser" ] ]

\* tier rows tried by the pure-function specification
TierRows ==
    [ is_initial : BOOLEAN,
      price_month : {None} \cup { Some(p) : p \in 0..MaxPrice } ]

(***************************************************************************)
(* Payment gateway: plans that stripe.Plan.list() may return.              *)
(***************************************************************************)
Plans ==
    { [ id |-> "plan_basic", name |-> "basic_monthly" ],
      [ id |-> "plan_pro", name |-> "pro_monthly" ],
      [ id |-> "plan_gold", name |-> "gold_monthly" ] }

PlanListings ==
    { <<>> } \cup { <<p>> : p \in Plans }
             \cup { <<p, q>> : p, q \in Plans }

(***************************************************************************)
(* Dates.                                                                  *)
(***************************************************************************)
\* date.today(): the date part of a clock reading
DateOf(instant) == <<instant[1], instant[2], instant[3]>>

Year(d) == d[1]

Month(d) == d[2]

\* lexicographic order on clock readings and on dates
Before(a, b) ==
    \E i \in 1..Len(a) :
        /\ a[i] < b[i]
        /\ \A j \in 1..(i - 1) : a[j] = b[j]

NotAfter(a, b) == a = b \/ Before(a, b)

(***************************************************************************)
(* Membership.is_downgrade(self, user): self is the target tier row and    *)
(* current_membership is user.current_membership (None or Some(row)).      *)
(* The comparison of the two price_month values raises TypeError when      *)
(* either of them is None.                                                 *)
(***************************************************************************)
is_downgrade_raises(self, current_membership) ==
    /\ current_membership # None
    /\ ~current_membership[1].is_initial
    /\ ~self.is_initial
    /\ (self.price_month = None \/ current_membership[1].price_month = None)

\* is_downgrade with <= for < in the price comparison
is_downgrade_or_equal(self, current_membership) ==
    IF current_membership = None \/ current_membership[1].is_initial
    THEN FALSE
    ELSE IF self.is_initial
    THEN TRUE
    ELSE IF self.price_month = None \/ current_membership[1].price_month = None
    THEN FALSE
    ELSE self.price_month[1] <= current_membership[1].price_month[1]

\* is_downgrade with the test of the target tier moved first
is_downgrade_target_first(self, current_membership) ==
    IF self.is_initial
    THEN TRUE
    ELSE IF current_membership = None \/ current_membership[1].is_initial
    THEN FALSE
    ELSE IF self.price_month = None \/ current_membership[1].price_month = None
    THEN FALSE
    ELSE self.price_month[1] < current_membership[1].price_month[1]

\* is_downgrade without the test of the target tier: prices decide
is_downgrade_by_price_only(self, current_membership) ==
    IF current_membership = None \/ current_membership[1].is_initial
    THEN FALSE
    ELSE IF self.price_month = None \/ current_membership[1].price_month = None
    THEN FALSE
    ELSE self.price_month[1] < current_membership[1].price_month[1]

is_downgrade(self, current_membership) ==
    IF current_membership = None \/ current_membership[1].is_initial
    THEN FALSE
    ELSE IF self.is_initial
    THEN TRUE
    ELSE IF self.price_month = None \/ current_membership[1].price_month = None
    THEN FALSE  \* not a return value: is_downgrade_raises holds
    ELSE self.price_month[1] < current_membership[1].price_month[1]

(***************************************************************************)
(* User.can_downgrade_membership: last is last_membership_downgrade_date   *)
(* (None or Some(date)), today is date.today().                            *)
(***************************************************************************)
\* can_downgrade_membership comparing the month number alone
can_downgrade_month_only(last, today) ==
    IF last = None
    THEN TRUE
    ELSE Month(last[1]) # Month(today)

can_downgrade_membership(last, today) ==
    IF last = None
    THEN TRUE
    ELSE Year(last[1]) # Year(today) \/ Month(last[1]) # Month(today)

(***************************************************************************)
(* Membership.get_stripe_plan: the first plan of the listing whose name is *)
(* the tier's stripe_monthly_product_name, None for an initial tier or     *)
(* when no plan matches.                                                   *)
(***************************************************************************)
PlanMatches(self, plan) == Some(plan.name) = self.stripe_monthly_product_name

\* get_stripe_plan returning the last plan it looked at when none matches
get_stripe_plan_last_seen(self, listing) ==
    IF self.is_initial
    THEN None
    ELSE LET hits == { i \in 1..Len(listing) : PlanMatches(self, listing[i]) }
         IN  IF hits = {}
             THEN IF listing = <<>> THEN None
                                    ELSE Some(listing[Len(listing)])
             ELSE Some(listing[CHOOSE i \in hits : \A j \in hits : i <= j])

get_stripe_plan(self, listing) ==
    IF self.is_initial
    THEN None
    ELSE LET hits == { i \in 1..Len(listing) : PlanMatches(self, listing[i]) }
         IN  IF hits = {}
             THEN None
             ELSE Some(listing[CHOOSE i \in hits : \A j \in hits : i <= j])

(***************************************************************************)
(* Membership.get_project_price_detailed.  Money is counted in cents, so a *)
(* Decimal with two decimals is an integer; percentages are integers.      *)
(* payment_fee is the row PaymentFee.get_current_fees() returns and self   *)
(* the tier row with its concierge_price.                                  *)
(***************************************************************************)
\* round(Decimal, ndigits=2) of n / d cents: to the nearest cent, a tie to
\* the even cent
RoundHalfEven(n, d) ==
    LET q == n \div d
        r == n % d
    IN  IF 2 * r < d THEN q
        ELSE IF 2 * r > d THEN q + 1
        ELSE IF q % 2 = 0 THEN q
        ELSE q + 1

\* x or Decimal(0.0)
OrZero(x) == IF x = None THEN 0 ELSE x[1]

\* get_project_price_detailed charging VAT and the stripe fee on the
\* project price alone
get_project_price_detailed_on_project_only(self, payment_fee, has_concierge_service, add_stripe_fee) ==
    LET project_price == OrZero(payment_fee.project_posting_price)
        concierge_price == IF has_concierge_service
                           THEN OrZero(self.concierge_price)
                           ELSE 0
        subtotal == project_price
    IN  [ project_price |-> RoundHalfEven(project_price, 1),
          concierge_price |-> RoundHalfEven(concierge_price, 1),
          vat_price |->
              RoundHalfEven(subtotal * payment_fee.tax_percentage, 100),
          stripe_fee |->
              IF add_stripe_fee
              THEN RoundHalfEven(subtotal * payment_fee.stripe_percentage,
                                 100)
              ELSE 0 ]

get_project_price_detailed(self, payment_fee, has_concierge_service, add_stripe_fee) ==
    LET project_price == OrZero(payment_fee.project_posting_price)
        concierge_price == IF has_concierge_service
                           THEN OrZero(self.concierge_price)
                           ELSE 0
        subtotal == project_price + concierge_price
    IN  [ project_price |-> RoundHalfEven(project_price, 1),
          concierge_price |-> RoundHalfEven(concierge_price, 1),
          vat_price |->
              RoundHalfEven(subtotal * payment_fee.tax_percentage, 100),
          stripe_fee |->
              IF add_stripe_fee
              THEN RoundHalfEven(subtotal * payment_fee.stripe_percentage,
                                 100)
              ELSE 0 ]

\* get_project_posting_price: sum(price_dict.values())
get_project_posting_price(self, payment_fee, has_concierge_service, add_stripe_fee) ==
    LET price_dict == get_project_price_detailed(
                          self, payment_fee, has_concierge_service,
                          add_stripe_fee)
    IN  price_dict.project_price + price_dict.concierge_price
          + price_dict.vat_price + price_dict.stripe_fee

\* fee schedules and concierge prices tried by the pricing specification,
\* in cents and percent
PaymentFees ==
    [ project_posting_price :
          {None, Some(0), Some(50), Some(150), Some(9999), Some(10000)},
      tax_percentage : {0, 21},
      stripe_percentage : {0, 3} ]

ConciergePrices == {None, Some(0), Some(33), Some(5000)}

(***************************************************************************)
(* The branch Membership.subscribe takes for target tier row self and      *)
(* user.current_membership: "error" (is_downgrade raised), "downgrade",    *)
(* "stripe" (not a downgrade, not initial) or "plain" (not a downgrade,    *)
(* initial).                                                               *)
(***************************************************************************)
\* Branch without the test that keeps initial tiers away from stripe
\* Branch with an unset price compared as no downgrade instead of raising
BranchUnsetPriceNoDowngrade(self, current_membership) ==
    IF is_downgrade(self, current_membership)
    THEN "downgrade"
    ELSE IF ~self.is_initial
    THEN "stripe"
    ELSE "plain"

BranchIgnoringInitial(self, current_membership) ==
    IF is_downgrade_raises(self, current_membership)
    THEN "error"
    ELSE IF is_downgrade(self, current_membership)
    THEN "downgrade"
    ELSE "stripe"

Branch(self, current_membership) ==
    IF is_downgrade_raises(self, current_membership)
    THEN "error"
    ELSE IF is_downgrade(self, current_membership)
    THEN "downgrade"
    ELSE IF ~self.is_initial
    THEN "stripe"
    ELSE "plain"

(***************************************************************************)
(* State.                                                                  *)
(***************************************************************************)
VARIABLES
    users,        \* auth User rows, committed: [Users -> row]
    ledger,       \* MembershipHistory rows, committed, in insertion order
    now,          \* the wall clock
    gw_subs,      \* subscriptions created in the payment gateway, in order
    blacklist,    \* refresh-token texts blacklisted so far
    lock,         \* row lock of each User row: the worker whose open
                  \* transaction wrote it, or "free"
    pc,           \* position of each worker in the call it is running
    job,          \* locals of the call each worker is running
    started,      \* subscribe jobs started so far
    tok_started,  \* issue_refresh_token calls started so far
    probe,        \* arguments and result of a pure-function evaluation
    catalog,      \* the tiers that have a row in the Membership table
    gw_customers, \* customers created in the payment gateway, in order
    replaced,     \* the token texts of each user that a successful
                  \* issue_refresh_token has replaced
    packages      \* is_active of each package of each user's profile

vars ==
    <<users, ledger, now, gw_subs, blacklist, lock, pc, job, started,
      tok_started, probe, catalog, gw_customers, replaced, packages>>

\* a row of the User table; exists tells whether the row is in the table
UserRow(tier, last_downgrade, token) ==
    [ current_membership |-> tier,
      last_membership_downgrade_date |-> last_downgrade,
      last_refresh_token |-> token,
      stripe_customer_token |-> None,
      profile_type |-> "client",
      exists |-> TRUE ]

\* what is left of a user whose row was deleted
DeletedRow == [UserRow(NoTier, None, EmptyText) EXCEPT !.exists = FALSE]

\* locals of a worker that runs no call.  before is what was stored when
\* the call began and plan_found whether the plan listing the call got held
\* a plan of the tier's name: both are kept for the properties only.
\* presented is the refresh token of the request (None when the request
\* carries none) and token_error whether blacklisting raised TokenError.
\* user_write and package_write are the writes of the open transaction.
\* issue_calls counts the calls of issue_refresh_token the request made and
\* response is what the endpoint answered.  caller is "create_user" for a
\* subscribe called by create_user.
IdleJob ==
    [ op |-> "none", user |-> "none", tier |-> NoTier, obj |-> None,
      update_fields |-> {}, downgrade |-> FALSE,
      stripe_plan_id |-> None, stripe_subscription_id |-> None,
      calls |-> <<>>, user_write |-> None, error |-> "none",
      text |-> EmptyText, result |-> None,
      before |-> None, plan_found |-> None,
      presented |-> None, token_error |-> FALSE,
      package_write |-> None,
      issue_calls |-> 0, response |-> None,
      caller |-> "none" ]

NoProbe == [ fn |-> "none" ]

FirstInstant == CHOOSE i \in Instants : \A j \in Instants : NotAfter(i, j)

\* the stored state: users who hold no membership yet, with the given
\* stored token texts
InitStore(texts) ==
    /\ users \in [Users -> { UserRow(NoTier, None, t) : t \in texts }]
    /\ ledger = <<>>
    /\ now = FirstInstant
    /\ gw_subs = <<>>
    /\ blacklist = {}
    /\ lock = [u \in Users |-> "free"]
    /\ catalog = Tiers
    /\ gw_customers = <<>>
    /\ replaced = [u \in Users |-> {}]
    /\ packages = [u \in Users |-> <<>>]

\* no call is running
InitCalls ==
    /\ pc = [w \in Workers |-> "idle"]
    /\ job = [w \in Workers |-> IdleJob]
    /\ started = 0
    /\ tok_started = 0

Init == InitStore({EmptyText}) /\ InitCalls /\ probe = NoProbe

(***************************************************************************)
(* The clock moves forward between any two steps.                          *)
(***************************************************************************)
AdvanceClock ==
    /\ \E i \in Instants : Before(now, i) /\ now' = i
    /\ UNCHANGED <<users, ledger, gw_subs, blacklist, lock, pc, job, started,
                   tok_started, probe,
                   catalog, gw_customers, replaced,
                   packages>>

(***************************************************************************)
(* subscribe_user_job / Membership.subscribe, run by worker w.             *)
(***************************************************************************)
\* user.current_membership of the in-memory user object
CurrentMembership(obj) ==
    IF obj.current_membership = NoTier
    THEN None
    ELSE Some(Membership[obj.current_membership])

\* jobs.py: Membership.objects.get, User.objects.get
LoadUser(w, u, t) ==
    /\ pc[w] = "idle"
    /\ t \in catalog
    /\ users[u].exists
    /\ started < MaxJobs
    /\ started' = started + 1
    /\ pc' = [pc EXCEPT ![w] = "loaded"]
    /\ job' = [job EXCEPT ![w] =
                 [IdleJob EXCEPT
                    !.op = "subscribe", !.user = u, !.tier = t,
                    !.obj = users[u],
                    !.update_fields = {"current_membership"},
                    !.before = Some([row |-> users[u], ledger |-> ledger,
                                     gw_subs |-> gw_subs])]]
    /\ UNCHANGED <<users, ledger, now, gw_subs, blacklist, lock, tok_started,
                   probe,
                   catalog, gw_customers, replaced,
                   packages>>

\* package_set_update deactivating the packages whatever the profile type
package_set_update_any_profile(profile_type, package_set) ==
    Some([i \in DOMAIN package_set |-> FALSE])

\* lines 64-65: user.get_user_profile().package_set.update(is_active=False)
\* for a freelancer, the written is_active values; None when nothing is
\* written
package_set_update(profile_type, package_set) ==
    IF profile_type = "freelancer"
    THEN Some([i \in DOMAIN package_set |-> FALSE])
    ELSE None

\* Classify with a downgrade refused while can_downgrade_membership is false
ClassifyRefusingDowngrade(w) ==
    LET branch == Branch(Membership[job[w].tier],
                         CurrentMembership(job[w].obj))
    IN  /\ pc[w] = "loaded"
        /\ CASE branch = "error" ->
                  /\ pc' = [pc EXCEPT ![w] = "failed"]
                  /\ job' = [job EXCEPT ![w].error = "TypeError"]
             [] /\ branch = "downgrade"
                /\ ~can_downgrade_membership(
                        job[w].obj.last_membership_downgrade_date,
                        DateOf(now)) ->
                  /\ pc' = [pc EXCEPT ![w] = "failed"]
                  /\ job' = [job EXCEPT ![w].error = "ValidationError"]
             [] branch = "downgrade" ->
                  /\ pc' = [pc EXCEPT ![w] = "save"]
                  /\ job' = [job EXCEPT
                       ![w].downgrade = TRUE,
                       ![w].obj.last_membership_downgrade_date =
                           Some(DateOf(now)),
                       ![w].update_fields =
                           @ \cup {"last_membership_downgrade_date"},
                       ![w].package_write =
                           package_set_update(job[w].obj.profile_type,
                                              packages[job[w].user])]
             [] branch = "stripe" ->
                  /\ pc' = [pc EXCEPT ![w] = "plan_list"]
                  /\ job' = job
             [] OTHER ->
                  /\ pc' = [pc EXCEPT ![w] = "save"]
                  /\ job' = job
        /\ UNCHANGED <<users, ledger, now, gw_subs, blacklist, lock, started,
                       tok_started, probe,
                       catalog, gw_customers, replaced,
                       packages>>

\* subscribe, lines 57-68: classification of the transition
Classify(w) ==
    LET branch == Branch(Membership[job[w].tier],
                         CurrentMembership(job[w].obj))
    IN  /\ pc[w] = "loaded"
        /\ CASE branch = "error" ->
                  /\ pc' = [pc EXCEPT ![w] = "failed"]
                  /\ job' = [job EXCEPT ![w].error = "TypeError"]
             [] branch = "downgrade" ->
                  /\ pc' = [pc EXCEPT ![w] = "save"]
                  /\ job' = [job EXCEPT
                       ![w].downgrade = TRUE,
                       ![w].obj.last_membership_downgrade_date =
                           Some(DateOf(now)),
                       ![w].update_fields =
                           @ \cup {"last_membership_downgrade_date"},
                       ![w].package_write =
                           package_set_update(job[w].obj.profile_type,
                                              packages[job[w].user])]
             [] branch = "stripe" ->
                  /\ pc' = [pc EXCEPT ![w] = "plan_list"]
                  /\ job' = job
             [] OTHER ->
                  /\ pc' = [pc EXCEPT ![w] = "save"]
                  /\ job' = job
        /\ UNCHANGED <<users, ledger, now, gw_subs, blacklist, lock, started,
                       tok_started, probe,
                       catalog, gw_customers, replaced,
                       packages>>

\* whether the listing holds a plan named as the tier's monthly product
ListingHasPlan(self, listing) ==
    \E i \in 1..Len(listing) :
        self.stripe_monthly_product_name = <<listing[i].name>>

\* subscribe, lines 69-70: get_stripe_plan and the plan's id.  An initial
\* tier returns before stripe.Plan.list() is called; stripe_plan["id"]
\* raises TypeError when get_stripe_plan returned None.
PlanList(w) ==
    LET self == Membership[job[w].tier]
        called == IF self.is_initial THEN <<>> ELSE <<"Plan.list">>
    IN  /\ pc[w] = "plan_list"
        /\ \/ /\ ~self.is_initial
              /\ pc' = [pc EXCEPT ![w] = "failed"]
              /\ job' = [job EXCEPT ![w].calls = @ \o called,
                                    ![w].error = "StripeError"]
           \/ \E listing \in PlanListings :
                LET plan == get_stripe_plan(self, listing)
                    found == IF self.is_initial
                             THEN None
                             ELSE Some(ListingHasPlan(self, listing))
                IN  IF plan = None
                    THEN /\ pc' = [pc EXCEPT ![w] = "failed"]
                         /\ job' = [job EXCEPT
                              ![w].calls = @ \o called,
                              ![w].plan_found = found,
                              ![w].error = "TypeError"]
                    ELSE /\ pc' = [pc EXCEPT ![w] = "sub_create"]
                         /\ job' = [job EXCEPT
                              ![w].calls = @ \o called,
                              ![w].plan_found = found,
                              ![w].stripe_plan_id = Some(plan[1].id)]
        /\ UNCHANGED <<users, ledger, now, gw_subs, blacklist, lock, started,
                       tok_started, probe,
                       catalog, gw_customers, replaced,
                       packages>>

\* the request User.stripe_subscribe sends to stripe.Subscription.create:
\* the metadata argument is not passed on
SubscriptionRequest(u, stripe_plan_id, metadata) ==
    [ customer |-> u, plan |-> stripe_plan_id, metadata |-> None ]

\* SubCreate trying again after an error of the gateway
SubCreateRetrying(w) ==
    /\ pc[w] = "sub_create"
    /\ \/ /\ pc' = pc
          /\ job' = [job EXCEPT ![w].calls = Append(@, "Subscription.create")]
          /\ gw_subs' = gw_subs
       \/ LET id == Len(gw_subs) + 1
              req == SubscriptionRequest(
                         job[w].user, job[w].stripe_plan_id[1],
                         Some([object_type |-> "membership",
                               uuid |-> job[w].tier]))
          IN  /\ gw_subs' = Append(gw_subs, [id |-> id, request |-> req])
              /\ pc' = [pc EXCEPT ![w] = "save"]
              /\ job' = [job EXCEPT
                   ![w].calls = Append(@, "Subscription.create"),
                   ![w].stripe_subscription_id = Some(id)]
    /\ UNCHANGED <<users, ledger, now, blacklist, lock, started, tok_started,
                   probe,
                   catalog, gw_customers, replaced,
                   packages>>

\* SubCreate with the gateway's error swallowed: subscribe goes on
SubCreateSwallowingError(w) ==
    /\ pc[w] = "sub_create"
    /\ \/ /\ pc' = [pc EXCEPT ![w] = "save"]
          /\ job' = [job EXCEPT ![w].calls = Append(@, "Subscription.create")]
          /\ gw_subs' = gw_subs
       \/ LET id == Len(gw_subs) + 1
              req == SubscriptionRequest(
                         job[w].user, job[w].stripe_plan_id[1],
                         Some([object_type |-> "membership",
                               uuid |-> job[w].tier]))
          IN  /\ gw_subs' = Append(gw_subs, [id |-> id, request |-> req])
              /\ pc' = [pc EXCEPT ![w] = "save"]
              /\ job' = [job EXCEPT
                   ![w].calls = Append(@, "Subscription.create"),
                   ![w].stripe_subscription_id = Some(id)]
    /\ UNCHANGED <<users, ledger, now, blacklist, lock, started, tok_started,
                   probe,
                   catalog, gw_customers, replaced,
                   packages>>

\* subscribe, lines 73-76: user.stripe_subscribe
SubCreate(w) ==
    /\ pc[w] = "sub_create"
    /\ \/ /\ pc' = [pc EXCEPT ![w] = "failed"]
          /\ job' = [job EXCEPT ![w].calls = Append(@, "Subscription.create"),
                                ![w].error = "StripeError"]
          /\ gw_subs' = gw_subs
       \/ LET id == Len(gw_subs) + 1
              req == SubscriptionRequest(
                         job[w].user, job[w].stripe_plan_id[1],
                         Some([object_type |-> "membership",
                               uuid |-> job[w].tier]))
          IN  /\ gw_subs' = Append(gw_subs, [id |-> id, request |-> req])
              /\ pc' = [pc EXCEPT ![w] = "save"]
              /\ job' = [job EXCEPT
                   ![w].calls = Append(@, "Subscription.create"),
                   ![w].stripe_subscription_id = Some(id)]
    /\ UNCHANGED <<users, ledger, now, blacklist, lock, started, tok_started,
                   probe,
                   catalog, gw_customers, replaced,
                   packages>>

\* SavedColumns with last_membership_downgrade_date left out of
\* update_fields
SavedColumnsWithoutDowngradeDate(obj, update_fields) ==
    [f \in update_fields \ {"last_membership_downgrade_date"} |-> obj[f]]

\* SavedColumns of a save() without update_fields: every column
SavedColumnsAll(obj, update_fields) == obj

\* SavedColumns with current_membership left out of update_fields
SavedColumnsWithoutMembership(obj, update_fields) ==
    [f \in update_fields \ {"current_membership"} |-> obj[f]]

\* the columns user.save(update_fields=...) writes
SavedColumns(obj, update_fields) == [f \in update_fields |-> obj[f]]

\* a User row with the saved columns overwritten
ApplyColumns(row, cols) ==
    [f \in DOMAIN row |-> IF f \in DOMAIN cols THEN cols[f] ELSE row[f]]

\* subscribe, lines 78-79: the UPDATE takes the row lock until commit
SaveUser(w) ==
    /\ pc[w] = "save"
    /\ lock[job[w].user] \in {"free", w}
    /\ lock' = [lock EXCEPT ![job[w].user] = w]
    /\ pc' = [pc EXCEPT ![w] = "insert"]
    /\ LET obj == [job[w].obj EXCEPT !.current_membership = job[w].tier]
       IN  job' = [job EXCEPT
                ![w].obj = obj,
                ![w].user_write =
                    Some(SavedColumns(obj, job[w].update_fields))]
    /\ UNCHANGED <<users, ledger, now, gw_subs, blacklist, started,
                   tok_started, probe,
                   catalog, gw_customers, replaced,
                   packages>>

\* HistoryRow without the id of the remote subscription
HistoryRowWithoutSubscription(w) ==
    [ user |-> job[w].user,
      membership |-> job[w].tier,
      created_at |-> now,
      stripe_plan_id |-> job[w].stripe_plan_id,
      stripe_subscription_id |-> None ]

\* the row MembershipHistory.objects.create inserts; created_at is
\* auto_now_add
HistoryRow(w) ==
    [ user |-> job[w].user,
      membership |-> job[w].tier,
      created_at |-> now,
      stripe_plan_id |-> job[w].stripe_plan_id,
      stripe_subscription_id |-> job[w].stripe_subscription_id ]

\* InsertAndCommit without the insert of the history row
CommitWithoutHistory(w) ==
    /\ pc[w] = "insert"
    /\ ledger' = ledger
    /\ users' = [users EXCEPT ![job[w].user] =
                    ApplyColumns(@, job[w].user_write[1])]
    /\ packages' = IF job[w].package_write = None
                   THEN packages
                   ELSE [packages EXCEPT ![job[w].user] =
                           job[w].package_write[1]]
    /\ lock' = [lock EXCEPT ![job[w].user] = "free"]
    /\ pc' = [pc EXCEPT ![w] = "done"]
    /\ job' = [job EXCEPT ![w].user_write = None, ![w].package_write = None]
    /\ UNCHANGED <<now, gw_subs, blacklist, started, tok_started, probe,
                   catalog, gw_customers, replaced>>

\* InsertAndCommit cancelling the user's remote subscriptions on a downgrade
InsertAndCommitCancelling(w) ==
    /\ pc[w] = "insert"
    /\ ledger' = Append(ledger, HistoryRow(w))
    /\ users' = [users EXCEPT ![job[w].user] =
                    ApplyColumns(@, job[w].user_write[1])]
    /\ packages' = IF job[w].package_write = None
                   THEN packages
                   ELSE [packages EXCEPT ![job[w].user] =
                           job[w].package_write[1]]
    /\ gw_subs' = IF job[w].downgrade
                  THEN SelectSeq(gw_subs,
                                 LAMBDA sub : sub.request.customer # job[w].user)
                  ELSE gw_subs
    /\ lock' = [lock EXCEPT ![job[w].user] = "free"]
    /\ pc' = [pc EXCEPT ![w] = "done"]
    /\ job' = [job EXCEPT ![w].user_write = None, ![w].package_write = None]
    /\ UNCHANGED <<now, blacklist, started, tok_started, probe,
                   catalog, gw_customers, replaced>>

\* subscribe, lines 80-85 and the exit of transaction.atomic: the insert,
\* then the commit of the user update and of the insert together
InsertAndCommit(w) ==
    /\ pc[w] = "insert"
    /\ ledger' = Append(ledger, HistoryRow(w))
    /\ users' = [users EXCEPT ![job[w].user] =
                    ApplyColumns(@, job[w].user_write[1])]
    /\ packages' = IF job[w].package_write = None
                   THEN packages
                   ELSE [packages EXCEPT ![job[w].user] =
                           job[w].package_write[1]]
    /\ lock' = [lock EXCEPT ![job[w].user] = "free"]
    /\ pc' = [pc EXCEPT ![w] = "done"]
    /\ job' = [job EXCEPT ![w].user_write = None, ![w].package_write = None]
    /\ UNCHANGED <<now, gw_subs, blacklist, started, tok_started, probe,
                   catalog, gw_customers, replaced>>

\* DbError without the atomic block: the user update made before the
\* failing insert stays
DbErrorWithoutRollback(w) ==
    /\ pc[w] \in {"save", "insert"}
    /\ lock[job[w].user] \in {"free", w}
    /\ lock' = [lock EXCEPT ![job[w].user] = "free"]
    /\ pc' = [pc EXCEPT ![w] = "failed"]
    /\ users' = IF job[w].user_write = None
                THEN users
                ELSE [users EXCEPT ![job[w].user] =
                        ApplyColumns(@, job[w].user_write[1])]
    /\ job' = [job EXCEPT ![w].user_write = None,
                          ![w].package_write = None,
                          ![w].error = "DatabaseError"]
    /\ UNCHANGED <<ledger, now, gw_subs, blacklist, started,
                   tok_started, probe,
                   catalog, gw_customers, replaced,
                   packages>>

\* a failing write (user.save or the insert) leaves transaction.atomic by
\* an exception: the transaction is rolled back
DbError(w) ==
    /\ pc[w] \in {"save", "insert"}
    /\ lock[job[w].user] \in {"free", w}
    /\ lock' = [lock EXCEPT ![job[w].user] = "free"]
    /\ pc' = [pc EXCEPT ![w] = "failed"]
    /\ job' = [job EXCEPT ![w].user_write = None,
                          ![w].package_write = None,
                          ![w].error = "DatabaseError"]
    /\ UNCHANGED <<users, ledger, now, gw_subs, blacklist, started,
                   tok_started, probe,
                   catalog, gw_customers, replaced,
                   packages>>

\* the call returns, or its exception reaches the caller
Return(w) ==
    /\ pc[w] \in {"done", "failed"}
    /\ pc' = [pc EXCEPT ![w] = "idle"]
    /\ job' = [job EXCEPT ![w] = IdleJob]
    /\ UNCHANGED <<users, ledger, now, gw_subs, blacklist, lock, started,
                   tok_started, probe,
                   catalog, gw_customers, replaced,
                   packages>>

(***************************************************************************)
(* Membership.delete, called by worker w on the row of tier t.             *)
(***************************************************************************)
\* delete removing the row, as models.Model.delete does
delete_removing_row(w, t) ==
    /\ pc[w] = "idle"
    /\ t \in catalog
    /\ catalog' = catalog \ {t}
    /\ pc' = [pc EXCEPT ![w] = "done"]
    /\ job' = [job EXCEPT ![w] = [IdleJob EXCEPT !.op = "delete", !.tier = t]]
    /\ UNCHANGED <<users, ledger, now, gw_subs, blacklist, lock, started,
                   tok_started, probe, gw_customers, replaced,
                   packages>>

\* lines 49-50: raise TypeError, whatever the arguments
delete(w, t) ==
    /\ pc[w] = "idle"
    /\ t \in catalog
    /\ catalog' = catalog
    /\ pc' = [pc EXCEPT ![w] = "failed"]
    /\ job' = [job EXCEPT ![w] = [IdleJob EXCEPT !.op = "delete", !.tier = t,
                                                 !.error = "TypeError"]]
    /\ UNCHANGED <<users, ledger, now, gw_subs, blacklist, lock, started,
                   tok_started, probe, gw_customers, replaced,
                   packages>>

\* @transaction.atomic, line 52, wraps the whole of subscribe: the call of
\* worker w is inside the atomic block from its first line to the commit
\* or the rollback
InAtomic(w) ==
    /\ job[w].op = "subscribe"
    /\ pc[w] \in {"plan_list", "sub_create", "save", "insert"}

\* the database transaction of the block begins with its first query: the
\* fetch of user.current_membership in is_downgrade (line 91) for a user
\* who holds a tier, user.save otherwise
TransactionOpen(w) ==
    /\ InAtomic(w)
    /\ \/ job[w].before[1].row.current_membership # NoTier
       \/ pc[w] = "insert"

Subscribe(w) ==
    \/ \E u \in Users, t \in Tiers : LoadUser(w, u, t)
    \/ Classify(w)
    \/ PlanList(w)
    \/ SubCreate(w)
    \/ SaveUser(w)
    \/ InsertAndCommit(w)
    \/ DbError(w)
    \/ Return(w)

\* subscribe calls one after the other, and the passing of time
Next ==
    \/ AdvanceClock
    \/ \E w \in Sequential : Subscribe(w)

Spec == Init /\ [][Next]_vars

\* subscribe calls and attempts to delete a tier, one after the other
NextCatalog ==
    \E w \in Sequential :
        \/ Subscribe(w)
        \/ \E t \in Tiers : delete(w, t)

SpecCatalog == Init /\ [][NextCatalog]_vars

\* subscribe calls of two workers at once (two runs of subscribe_user_job),
\* their steps interleaved
NextRace ==
    /\ \E w \in Workers : Subscribe(w)
    /\ started' <= MaxRaceJobs

\* every user holds the initial tier, as create_user leaves them
InitRace ==
    /\ users = [u \in Users |-> UserRow("free", None, EmptyText)]
    /\ ledger = [i \in 1..2 |->
                   [ user |-> IF i = 1 THEN "u1" ELSE "u2",
                     membership |-> "free",
                     created_at |-> FirstInstant,
                     stripe_plan_id |-> None,
                     stripe_subscription_id |-> None ]]
    /\ now = FirstInstant
    /\ gw_subs = <<>>
    /\ blacklist = {}
    /\ lock = [u \in Users |-> "free"]
    /\ catalog = Tiers
    /\ gw_customers = <<>>
    /\ replaced = [u \in Users |-> {}]
    /\ packages = [u \in Users |-> <<>>]
    /\ InitCalls
    /\ probe = NoProbe

SpecRace == InitRace /\ [][NextRace]_vars

(***************************************************************************)
(* UserManager.create_user, run by worker w for a user u who has no row.   *)
(***************************************************************************)
PROFILE_TYPES == {"client", "freelancer", "adviser"}

\* get_users_initial matching the profile type only
get_users_initial_any_tier(profile_type, rows) ==
    { t \in rows : Membership[t].profile_type = profile_type }

\* MembershipManager.get_users_initial: the rows the filter selects;
\* first() returns one of them, None when there is none
get_users_initial(profile_type, rows) ==
    { t \in rows : /\ Membership[t].profile_type = profile_type
                   /\ Membership[t].is_initial }

\* lines 66-68: user.save() inserts the row, in autocommit; user_post_save
\* creates the profile, which has no package yet
CreateUserSave(w, u, profile_type) ==
    LET row == [UserRow(NoTier, None, EmptyText) EXCEPT
                  !.profile_type = profile_type]
    IN  /\ pc[w] = "idle"
        /\ ~users[u].exists
        /\ users' = [users EXCEPT ![u] = row]
        /\ packages' = [packages EXCEPT ![u] = <<>>]
        /\ pc' = [pc EXCEPT ![w] = "created"]
        /\ job' = [job EXCEPT ![w] =
                     [IdleJob EXCEPT
                        !.op = "create_user", !.caller = "create_user",
                        !.user = u, !.obj = row,
                        !.before = Some([row |-> row, ledger |-> ledger,
                                         gw_subs |-> gw_subs])]]
        /\ UNCHANGED <<ledger, now, gw_subs, blacklist, lock, started,
                       tok_started, probe, catalog, gw_customers, replaced>>

\* lines 100-110: the initial tier is looked up; membership.subscribe(user)
\* is called when there is one, else the error is logged and the user
\* returned
CreateUserInitial(w) ==
    LET found == get_users_initial(job[w].obj.profile_type, catalog)
    IN  /\ pc[w] = "created"
        /\ IF found = {}
           THEN /\ pc' = [pc EXCEPT ![w] = "done"]
                /\ job' = job
           ELSE \E t \in found :
                    /\ pc' = [pc EXCEPT ![w] = "loaded"]
                    /\ job' = [job EXCEPT
                                 ![w].op = "subscribe",
                                 ![w].tier = t,
                                 ![w].update_fields = {"current_membership"}]
        /\ UNCHANGED <<users, ledger, now, gw_subs, blacklist, lock, started,
                       tok_started, probe, catalog, gw_customers, replaced,
                       packages>>

CreateUser(w) ==
    \/ \E u \in Users, profile_type \in PROFILE_TYPES :
           CreateUserSave(w, u, profile_type)
    \/ CreateUserInitial(w)

\* no user has a row yet
InitSignup ==
    /\ users = [u \in Users |-> DeletedRow]
    /\ ledger = <<>>
    /\ now = FirstInstant
    /\ gw_subs = <<>>
    /\ blacklist = {}
    /\ lock = [u \in Users |-> "free"]
    /\ catalog = Tiers
    /\ gw_customers = <<>>
    /\ replaced = [u \in Users |-> {}]
    /\ packages = [u \in Users |-> <<>>]
    /\ InitCalls
    /\ probe = NoProbe

\* sign-ups and subscribe jobs, one after the other
NextSignup ==
    \E w \in Sequential :
        \/ CreateUser(w)
        \/ Subscribe(w)

SpecSignup == InitSignup /\ [][NextSignup]_vars

(***************************************************************************)
(* subscribe for users of both kinds of profile, with packages.            *)
(***************************************************************************)
\* the profile type of each user and the packages a profile may hold
ProfileTypeOf == [u \in Users |-> IF u = "u1" THEN "freelancer" ELSE "client"]

PackageSets == { <<>>, <<TRUE, FALSE>>, <<TRUE, TRUE>> }

InitPackages ==
    /\ users = [u \in Users |->
                  [UserRow(NoTier, None, EmptyText) EXCEPT
                     !.profile_type = ProfileTypeOf[u]]]
    /\ packages \in [Users -> PackageSets]
    /\ ledger = <<>>
    /\ now = FirstInstant
    /\ gw_subs = <<>>
    /\ blacklist = {}
    /\ lock = [u \in Users |-> "free"]
    /\ catalog = Tiers
    /\ gw_customers = <<>>
    /\ replaced = [u \in Users |-> {}]
    /\ InitCalls
    /\ probe = NoProbe

NextPackages == \E w \in Sequential : Subscribe(w)

SpecPackages == InitPackages /\ [][NextPackages]_vars

(***************************************************************************)
(* User.issue_refresh_token, run by worker w.                              *)
(***************************************************************************)
\* the refresh tokens a request for user u can present: none (the views
\* that log in), the stored text or a text that was replaced.  jwt.decode
\* checks the signature and the expiry of the text, nothing else.
Presentable(u) ==
    {None} \cup { Some(t) : t \in ({users[u].last_refresh_token} \cup
                                     replaced[u]) \ {EmptyText} }

\* the view or serializer loads the user and builds the new token text
TokLoad(w, u, presented) ==
    /\ pc[w] = "idle"
    /\ users[u].exists
    /\ tok_started < MaxTokenCalls
    /\ tok_started' = tok_started + 1
    /\ pc' = [pc EXCEPT ![w] = "tok_loaded"]
    /\ job' = [job EXCEPT ![w] =
                 [IdleJob EXCEPT
                    !.op = "token", !.user = u,
                    !.text = MintedText(tok_started + 1),
                    !.obj = users[u],
                    !.presented = presented,
                    !.before = Some([row |-> users[u], ledger |-> ledger,
                                     gw_subs |-> gw_subs])]]
    /\ UNCHANGED <<users, ledger, now, gw_subs, blacklist, lock, started,
                   probe,
                   catalog, gw_customers, replaced,
                   packages>>

\* lines 670-675: the old text is blacklisted unless it is empty; TokenError
\* (an expired or already blacklisted token) is ignored
TokBlacklist(w) ==
    /\ pc[w] = "tok_loaded"
    /\ pc' = [pc EXCEPT ![w] = "tok_update"]
    /\ IF job[w].obj.last_refresh_token # EmptyText
       THEN \/ /\ blacklist' =
                     blacklist \cup {job[w].obj.last_refresh_token}
               /\ job' = [job EXCEPT ![w].issue_calls = @ + 1]
            \/ /\ blacklist' = blacklist
               /\ job' = [job EXCEPT ![w].issue_calls = @ + 1,
                                     ![w].token_error = TRUE]
       ELSE /\ blacklist' = blacklist
            /\ job' = [job EXCEPT ![w].issue_calls = @ + 1]
    /\ UNCHANGED <<users, ledger, now, gw_subs, lock, started,
                   tok_started, probe,
                   catalog, gw_customers, replaced,
                   packages>>

\* RefreshTokenFilter selecting the row by its key alone
RefreshTokenFilterByKeyOnly(row, last_refresh_token) == TRUE

\* UserManager.update_by_refresh_token: the rows the filter selects
RefreshTokenFilter(row, last_refresh_token) ==
    row.last_refresh_token = last_refresh_token

\* lines 677-679: the conditional UPDATE, which waits for the row lock
TokUpdate(w) ==
    LET u == job[w].user
        updated == /\ users[u].exists
                   /\ RefreshTokenFilter(users[u],
                                         job[w].obj.last_refresh_token)
    IN  /\ pc[w] = "tok_update"
        /\ lock[u] = "free"
        /\ pc' = [pc EXCEPT ![w] = "tok_refresh"]
        /\ users' = IF updated
                    THEN [users EXCEPT ![u].last_refresh_token = job[w].text]
                    ELSE users
        /\ replaced' = IF updated
                       THEN [replaced EXCEPT ![u] =
                               @ \cup ({users[u].last_refresh_token}
                                          \ {EmptyText})]
                       ELSE replaced
        /\ job' = [job EXCEPT ![w].result = Some(updated)]
        /\ UNCHANGED <<ledger, now, gw_subs, blacklist, lock, started,
                       tok_started, probe,
                       catalog, gw_customers,
                       packages>>

\* the endpoints that call issue_refresh_token: the refresh endpoint for a
\* request that presents a refresh token, login and login-as otherwise
Endpoints(presented) ==
    IF presented = None THEN {"login", "login_as"} ELSE {"refresh"}

\* EndpointResponse handing out the tokens whatever issue_refresh_token
\* returned
EndpointResponseIgnoringResult(endpoint, issued, text) ==
    [ outcome |-> "200", tokens |-> Some(text) ]

\* views.py 67-72 and 99-104, serializers.py 102-111: the tokens when
\* issue_refresh_token returned true, else the 409 response of the views
\* or the ConflictValidationError of the refresh serializer
EndpointResponse(endpoint, issued, text) ==
    IF issued
    THEN [ outcome |-> "200", tokens |-> Some(text) ]
    ELSE IF endpoint = "refresh"
    THEN [ outcome |-> "ConflictValidationError", tokens |-> None ]
    ELSE [ outcome |-> "409", tokens |-> None ]

\* lines 680-681: refresh_from_db, return updated; the endpoint answers
TokRefresh(w) ==
    /\ pc[w] = "tok_refresh"
    /\ pc' = [pc EXCEPT ![w] = "done"]
    /\ \E endpoint \in Endpoints(job[w].presented) :
           job' = [job EXCEPT
                     ![w].obj = users[job[w].user],
                     ![w].response =
                         Some(EndpointResponse(endpoint, job[w].result[1],
                                               job[w].text))]
    /\ UNCHANGED <<users, ledger, now, gw_subs, blacklist, lock, started,
                   tok_started, probe,
                   catalog, gw_customers, replaced,
                   packages>>

IssueRefreshToken(w) ==
    \/ \E u \in Users : \E presented \in Presentable(u) :
           TokLoad(w, u, presented)
    \/ TokBlacklist(w)
    \/ TokUpdate(w)
    \/ TokRefresh(w)
    \/ Return(w)

\* issue_refresh_token calls of concurrent requests
NextToken == \E w \in Workers : IssueRefreshToken(w)

InitToken == InitStore({EmptyText, OldText}) /\ InitCalls /\ probe = NoProbe

SpecToken == InitToken /\ [][NextToken]_vars

(***************************************************************************)
(* Deletion of a user: User.delete() sends pre_delete, whose receiver      *)
(* user_pre_delete calls delete_on_stripe, and then deletes the row with   *)
(* the rows that reference it by a foreign key with on_delete=CASCADE.     *)
(***************************************************************************)
\* MembershipHistory.user is on_delete=CASCADE: the rows left when user u
\* is deleted
CascadeUserDelete(rows, u) == SelectSeq(rows, LAMBDA row : row.user # u)

\* delete_on_stripe: the gateway's customers after customer.delete()
DeleteOnStripe(customers, token) ==
    [ i \in 1..Len(customers) |->
        IF Some(customers[i].id) = token
        THEN [customers[i] EXCEPT !.deleted = TRUE]
        ELSE customers[i] ]

DeleteUser(w, u) ==
    LET token == users[u].stripe_customer_token
    IN  /\ pc[w] = "idle"
        /\ users[u].exists
        /\ lock[u] = "free"
        /\ \/ \* Customer.retrieve or customer.delete() raises
              /\ token # None
              /\ pc' = [pc EXCEPT ![w] = "failed"]
              /\ job' = [job EXCEPT ![w] =
                    [IdleJob EXCEPT !.op = "delete_user", !.user = u,
                                    !.error = "StripeError"]]
              /\ UNCHANGED <<users, ledger, gw_customers>>
           \/ /\ gw_customers' = DeleteOnStripe(gw_customers, token)
              /\ ledger' = CascadeUserDelete(ledger, u)
              /\ users' = [users EXCEPT ![u] = DeletedRow]
              /\ pc' = [pc EXCEPT ![w] = "done"]
              /\ job' = [job EXCEPT ![w] =
                    [IdleJob EXCEPT !.op = "delete_user", !.user = u]]
        /\ UNCHANGED <<now, gw_subs, blacklist, lock, started, tok_started,
                       probe, catalog, replaced,
                       packages>>

(***************************************************************************)
(* The user's customer in the payment gateway: create_stripe_customer,     *)
(* get_or_create_stripe_customer, create_or_update_stripe_customer and     *)
(* add_card, run by worker w on a user object loaded by the request.       *)
(***************************************************************************)
CustomerOps ==
    { "create_stripe_customer", "get_or_create_stripe_customer",
      "create_or_update_stripe_customer", "add_card" }

\* the request loads the user
CustLoad(w, u, op) ==
    /\ pc[w] = "idle"
    /\ users[u].exists
    /\ Len(gw_customers) < MaxCustomers
    /\ pc' = [pc EXCEPT ![w] = "cust_loaded"]
    /\ job' = [job EXCEPT ![w] =
                 [IdleJob EXCEPT !.op = op, !.user = u, !.obj = users[u]]]
    /\ UNCHANGED <<users, ledger, now, gw_subs, blacklist, lock, started,
                   tok_started, probe, catalog, gw_customers, replaced,
                   packages>>

\* stripe.Customer.create: the new customer of the gateway
NewCustomer(u) == [ id |-> Len(gw_customers) + 1, user |-> u,
                    deleted |-> FALSE ]

\* the test of self.stripe_customer_token and the gateway call that follows:
\* create_stripe_customer lines 462-466, create_or_update_stripe_customer
\* lines 487-499, get_or_create_stripe_customer lines 617-625 (add_card
\* begins with it, line 327).  create_or_update_stripe_customer returns the
\* customer it created and stores no token.
CustCall(w) ==
    LET u == job[w].user
        has_token == job[w].obj.stripe_customer_token # None
        created == NewCustomer(u)
    IN  /\ pc[w] = "cust_loaded"
        /\ \/ \* create_stripe_customer with a token: return None
              /\ job[w].op = "create_stripe_customer" /\ has_token
              /\ pc' = [pc EXCEPT ![w] = "done"]
              /\ UNCHANGED <<job, gw_customers>>
           \/ \* Customer.retrieve or Customer.modify of the stored token
              /\ job[w].op # "create_stripe_customer" /\ has_token
              /\ pc' = [pc EXCEPT ![w] = "done"]
              /\ job' = [job EXCEPT ![w].calls =
                            Append(@, IF job[w].op =
                                         "create_or_update_stripe_customer"
                                      THEN "Customer.modify"
                                      ELSE "Customer.retrieve")]
              /\ UNCHANGED gw_customers
           \/ \* Customer.create, token stored by the next step
              /\ job[w].op # "create_or_update_stripe_customer" /\ ~has_token
              /\ gw_customers' = Append(gw_customers, created)
              /\ pc' = [pc EXCEPT ![w] = "cust_save"]
              /\ job' = [job EXCEPT
                   ![w].calls = Append(@, "Customer.create"),
                   ![w].obj.stripe_customer_token = Some(created.id)]
           \/ \* Customer.create, returned to the view
              /\ job[w].op = "create_or_update_stripe_customer" /\ ~has_token
              /\ gw_customers' = Append(gw_customers, created)
              /\ pc' = [pc EXCEPT ![w] = "done"]
              /\ job' = [job EXCEPT ![w].calls = Append(@, "Customer.create")]
           \/ \* the gateway call fails
              /\ ~(job[w].op = "create_stripe_customer" /\ has_token)
              /\ pc' = [pc EXCEPT ![w] = "failed"]
              /\ job' = [job EXCEPT ![w].error = "StripeError"]
              /\ UNCHANGED gw_customers
        /\ UNCHANGED <<users, ledger, now, gw_subs, blacklist, lock, started,
                       tok_started, probe, catalog, replaced,
                       packages>>

\* create_stripe_customer line 467: save(update_fields=
\* ["stripe_customer_token"]), which waits for the row lock
CustSave(w) ==
    LET u == job[w].user
    IN  /\ pc[w] = "cust_save"
        /\ lock[u] = "free"
        /\ IF users[u].exists
           THEN /\ users' = [users EXCEPT ![u] =
                      ApplyColumns(@, SavedColumns(job[w].obj,
                                                   {"stripe_customer_token"}))]
                /\ pc' = [pc EXCEPT ![w] = "done"]
                /\ job' = job
           ELSE \* the UPDATE matches no row: DatabaseError
                /\ users' = users
                /\ pc' = [pc EXCEPT ![w] = "failed"]
                /\ job' = [job EXCEPT ![w].error = "DatabaseError"]
        /\ UNCHANGED <<ledger, now, gw_subs, blacklist, lock, started,
                       tok_started, probe, catalog, gw_customers, replaced,
                       packages>>

CustomerOp(w) ==
    \/ \E u \in Users, op \in CustomerOps : CustLoad(w, u, op)
    \/ CustCall(w)
    \/ CustSave(w)
    \/ Return(w)

\* requests of concurrent workers that touch the gateway customer or
\* delete a user
NextCustomer ==
    \E w \in Workers :
        \/ CustomerOp(w)
        \/ \E u \in Users : DeleteUser(w, u)

SpecCustomer == Init /\ [][NextCustomer]_vars

\* subscribe jobs of one worker while another worker serves token and
\* gateway-customer requests, all of them for the user u1
NextFrame ==
    /\ \/ \E w \in Sequential : Subscribe(w)
       \/ \E w \in Workers \ Sequential :
              \/ IssueRefreshToken(w)
              \/ CustomerOp(w)
    /\ started' + tok_started' + Len(gw_customers') <= MaxFrameCalls
    /\ \A w \in Workers : job'[w].user \in {"none", "u1"}

\* u1 was subscribed to pro and then downgraded to basic, u2 holds nothing
InitFrame ==
    /\ users = [u \in Users |->
                  IF u = "u1"
                  THEN UserRow("basic", Some(DateOf(FirstInstant)), EmptyText)
                  ELSE UserRow(NoTier, None, EmptyText)]
    /\ ledger = << [ user |-> "u1", membership |-> "pro",
                     created_at |-> FirstInstant,
                     stripe_plan_id |-> Some("plan_pro"),
                     stripe_subscription_id |-> Some(1) ],
                   [ user |-> "u1", membership |-> "basic",
                     created_at |-> FirstInstant,
                     stripe_plan_id |-> None,
                     stripe_subscription_id |-> None ] >>
    /\ now = FirstInstant
    /\ gw_subs = << [ id |-> 1,
                      request |-> SubscriptionRequest("u1", "plan_pro", None) ] >>
    /\ blacklist = {}
    /\ lock = [u \in Users |-> "free"]
    /\ catalog = Tiers
    /\ gw_customers = <<>>
    /\ replaced = [u \in Users |-> {}]
    /\ packages = [u \in Users |-> <<>>]
    /\ InitCalls
    /\ probe = NoProbe

SpecFrame == InitFrame /\ [][NextFrame]_vars

\* the operations on accounts, one after the other: subscribe, token
\* refresh, deletion of a user and attempts to delete a tier
NextAccounts ==
    \E w \in Sequential :
        \/ Subscribe(w)
        \/ IssueRefreshToken(w)
        \/ \E u \in Users : DeleteUser(w, u)
        \/ \E t \in Tiers : delete(w, t)

SpecAccounts == Init /\ [][NextAccounts]_vars

(***************************************************************************)
(* Pure functions evaluated on arbitrary tier rows.                        *)
(***************************************************************************)
InitPure ==
    /\ InitStore({EmptyText})
    /\ InitCalls
    /\ probe \in [ fn : {"is_downgrade"}, self : TierRows,
                   current : {None} \cup { Some(r) : r \in TierRows },
                   done : {FALSE}, raised : {FALSE}, value : {FALSE},
                   branch : {"none"} ]

\* is_downgrade and the branch of subscribe on the probe's arguments
EvalIsDowngrade ==
    /\ probe.fn = "is_downgrade"
    /\ ~probe.done
    /\ probe' = [probe EXCEPT
         !.done = TRUE,
         !.raised = is_downgrade_raises(probe.self, probe.current),
         !.value = is_downgrade(probe.self, probe.current),
         !.branch = Branch(probe.self, probe.current)]
    /\ UNCHANGED <<users, ledger, now, gw_subs, blacklist, lock, pc, job,
                   started, tok_started,
                   catalog, gw_customers, replaced,
                   packages>>

NextPure == EvalIsDowngrade

SpecPure == InitPure /\ [][NextPure]_vars

(***************************************************************************)
(* The pricing functions evaluated on the fee schedules above.             *)
(***************************************************************************)
InitPrice ==
    /\ InitStore({EmptyText})
    /\ InitCalls
    /\ probe \in [ fn : {"get_project_price_detailed"},
                   self : [ concierge_price : ConciergePrices ],
                   payment_fee : PaymentFees,
                   has_concierge_service : BOOLEAN,
                   add_stripe_fee : BOOLEAN,
                   done : {FALSE},
                   value : {[ project_price |-> 0, concierge_price |-> 0,
                              vat_price |-> 0, stripe_fee |-> 0 ]},
                   total : {0} ]

EvalPrice ==
    /\ probe.fn = "get_project_price_detailed"
    /\ ~probe.done
    /\ probe' = [probe EXCEPT
         !.done = TRUE,
         !.value = get_project_price_detailed(
                       probe.self, probe.payment_fee,
                       probe.has_concierge_service, probe.add_stripe_fee),
         !.total = get_project_posting_price(
                       probe.self, probe.payment_fee,
                       probe.has_concierge_service, probe.add_stripe_fee)]
    /\ UNCHANGED <<users, ledger, now, gw_subs, blacklist, lock, pc, job,
                   started, tok_started, catalog, gw_customers, replaced,
                   packages>>

NextPrice == EvalPrice

SpecPrice == InitPrice /\ [][NextPrice]_vars

(***************************************************************************)
(* Properties.                                                             *)
(***************************************************************************)
\* the token text a call read when it loaded the user
TextRead(w) == job[w].before[1].row.last_refresh_token

\* two issue_refresh_token calls for one user that read the same text and
\* write texts different from it, both past their conditional UPDATE
Racing(w1, w2) ==
    /\ w1 # w2
    /\ job[w1].op = "token" /\ job[w2].op = "token"
    /\ job[w1].user = job[w2].user
    /\ job[w1].result # None /\ job[w2].result # None
    /\ TextRead(w1) = TextRead(w2)
    /\ job[w1].text # TextRead(w1)
    /\ job[w2].text # TextRead(w2)

\* C1: when two issue_refresh_token calls for the same user hold the same
\* stale last_refresh_token V and write texts different from V, exactly one
\* returns true, the other returns false, and the stored text is the one
\* written by the call that returned true.
C1_OneRefreshWins ==
    \A w1, w2 \in Workers :
        Racing(w1, w2) =>
            /\ job[w1].result # job[w2].result
            /\ job[w1].result = Some(TRUE) =>
                   users[job[w1].user].last_refresh_token = job[w1].text

C1_Witness ==
    \E w1, w2 \in Workers :
        /\ Racing(w1, w2)
        /\ pc[w1] = "done" /\ pc[w2] = "done"
        /\ job[w1].result = Some(TRUE) /\ job[w2].result = Some(FALSE)
        /\ TextRead(w1) # EmptyText

\* a finished evaluation of is_downgrade
Evaluated == probe.fn = "is_downgrade" /\ probe.done

\* C7: for current and target tiers both non-initial with price_month set,
\* is_downgrade returns true exactly when the target's price_month is lower
\* than the current one's; with equal prices it returns false and subscribe
\* takes the branch that creates a remote subscription.
C7_StrictPriceComparison ==
    ( /\ Evaluated
      /\ probe.current # None
      /\ ~probe.current[1].is_initial /\ ~probe.self.is_initial
      /\ probe.current[1].price_month # None
      /\ probe.self.price_month # None )
    => LET target == probe.self.price_month[1]
           current == probe.current[1].price_month[1]
       IN  /\ ~probe.raised
           /\ probe.value <=> (target < current)
           /\ target = current =>
                  /\ probe.value = FALSE
                  /\ probe.branch = "stripe"

C7_Witness ==
    /\ Evaluated
    /\ probe.current # None
    /\ ~probe.current[1].is_initial /\ ~probe.self.is_initial
    /\ probe.current[1].price_month = Some(1)
    /\ probe.self.price_month = Some(1)
    /\ probe.value = FALSE /\ probe.branch = "stripe"

\* C8: is_downgrade returns false for every target tier when the user has
\* no current membership or the current membership is an initial tier, also
\* when both tiers are initial.
C8_NoDowngradeFromNothingOrInitial ==
    ( /\ Evaluated
      /\ (probe.current = None \/ probe.current[1].is_initial) )
    => /\ ~probe.raised
       /\ probe.value = FALSE
       /\ probe.branch # "downgrade"

C8_Witness ==
    /\ Evaluated
    /\ probe.current # None
    /\ probe.current[1].is_initial /\ probe.self.is_initial
    /\ probe.value = FALSE

\* C9: when the current membership is a non-initial tier and the target
\* tier is initial, is_downgrade returns true whatever the two price_month
\* values are, unset or higher on the initial tier included.
C9_BackToInitialIsDowngrade ==
    ( /\ Evaluated
      /\ probe.current # None
      /\ ~probe.current[1].is_initial
      /\ probe.self.is_initial )
    => /\ ~probe.raised
       /\ probe.value = TRUE
       /\ probe.branch = "downgrade"

C9_Witness ==
    /\ Evaluated
    /\ probe.current # None
    /\ ~probe.current[1].is_initial /\ probe.self.is_initial
    /\ probe.current[1].price_month = Some(1)
    /\ probe.self.price_month = Some(2)
    /\ probe.value = TRUE

\* what was stored when the call of worker w began
AtStart(w) == job[w].before[1]

\* the call of worker w has changed nothing that is stored
NothingCommitted(w) ==
    /\ users[job[w].user] = AtStart(w).row
    /\ ledger = AtStart(w).ledger

\* the rows of the ledger that belong to user u, as indexes
EntriesOf(u) == { i \in 1..Len(ledger) : ledger[i].user = u }

Latest(indexes) == CHOOSE i \in indexes : \A j \in indexes : j <= i

\* C2: subscribe to a tier with is_initial = true issues no call to the
\* payment gateway, neither a plan listing nor a subscription creation,
\* whatever the user's current membership is: the call never enters the
\* stripe branch.
C2_InitialTierNeverCallsGateway ==
    \A w \in Workers :
        (job[w].op = "subscribe" /\ Membership[job[w].tier].is_initial)
        => /\ job[w].calls = <<>>
           /\ pc[w] \notin {"plan_list", "sub_create"}
           /\ job[w].stripe_plan_id = None
           /\ job[w].stripe_subscription_id = None
           /\ gw_subs = AtStart(w).gw_subs

C2_Witness ==
    \E w \in Workers :
        /\ job[w].op = "subscribe" /\ pc[w] = "done"
        /\ Membership[job[w].tier].is_initial
        /\ AtStart(w).row.current_membership = "pro"
        /\ users[job[w].user].current_membership = job[w].tier

\* C3: after any sequence of subscribe calls, completed or failed, a user
\* with at least one ledger entry has current_membership equal to the
\* membership of the user's most recently created ledger entry.
C3_PointerAgreesWithLatestEntry ==
    \A u \in Users :
        EntriesOf(u) # {} =>
            users[u].current_membership = ledger[Latest(EntriesOf(u))].membership

C3_Witness ==
    \E u \in Users, w \in Workers :
        /\ Cardinality(EntriesOf(u)) >= 2
        /\ \E i \in EntriesOf(u) :
               ledger[i].membership # ledger[Latest(EntriesOf(u))].membership
        /\ pc[w] = "failed" /\ job[w].user = u
        /\ job[w].tier # users[u].current_membership

\* the step in which the subscribe call of worker w succeeds
Succeeds(w) ==
    /\ job[w].op = "subscribe"
    /\ pc[w] # "done"
    /\ pc'[w] = "done"

\* C4: every successful subscribe call adds exactly one ledger row; the row
\* carries the user and the membership of the call and a created_at not
\* earlier than that of any earlier row of the user; the ledger changes in
\* no other step.
C4_OneRowPerSuccessfulSubscribe ==
    [][ /\ \A w \in Workers :
               Succeeds(w) =>
                   /\ Len(ledger') = Len(ledger) + 1
                   /\ SubSeq(ledger', 1, Len(ledger)) = ledger
                   /\ ledger'[Len(ledger')].user = job[w].user
                   /\ ledger'[Len(ledger')].membership = job[w].tier
                   /\ \A i \in EntriesOf(job[w].user) :
                          NotAfter(ledger[i].created_at,
                                   ledger'[Len(ledger')].created_at)
        /\ ledger' # ledger => \E w \in Workers : Succeeds(w)
      ]_vars

C4_Witness ==
    \E u \in Users, w \in Workers :
        /\ pc[w] = "done" /\ job[w].user = u
        /\ Cardinality(EntriesOf(u)) >= 2
        /\ \E i \in EntriesOf(u) :
               Before(ledger[i].created_at,
                      ledger[Latest(EntriesOf(u))].created_at)
        /\ \E i \in 1..Len(ledger) : ledger[i].user # u

\* the gateway calls of one subscribe call, none made twice
CallsOnce(calls) ==
    calls \in { <<>>, <<"Plan.list">>, <<"Plan.list", "Subscription.create">> }

\* a ledger row names a remote subscription only if the gateway created it,
\* for that user and that plan
BackedByGateway(row) ==
    /\ row.stripe_subscription_id = None <=> row.stripe_plan_id = None
    /\ row.stripe_subscription_id # None =>
           \E i \in 1..Len(gw_subs) :
               /\ gw_subs[i].id = row.stripe_subscription_id[1]
               /\ gw_subs[i].request.customer = row.user
               /\ gw_subs[i].request.plan = row.stripe_plan_id[1]

\* C5: when the gateway call of subscribe (plan listing or subscription
\* creation) fails, the error reaches the caller, the call is not retried,
\* and the stored user row and the ledger are as before the call; a ledger
\* entry of a paid non-downgrade transition always has its successful
\* remote subscription creation.
C5_GatewayFailureCommitsNothing ==
    /\ \A w \in Workers :
           job[w].op = "subscribe" =>
               /\ CallsOnce(job[w].calls)
               /\ job[w].error = "StripeError" =>
                      /\ pc[w] = "failed"
                      /\ job[w].calls # <<>>
                      /\ job[w].user_write = None
                      /\ NothingCommitted(w)
                      /\ gw_subs = AtStart(w).gw_subs
               /\ ( /\ pc[w] = "done"
                    /\ ~job[w].downgrade
                    /\ ~Membership[job[w].tier].is_initial )
                  => /\ job[w].calls = <<"Plan.list", "Subscription.create">>
                     /\ ledger[Len(ledger)].stripe_subscription_id # None
                     /\ ledger[Len(ledger)].stripe_subscription_id =
                            job[w].stripe_subscription_id
    /\ \A i \in 1..Len(ledger) : BackedByGateway(ledger[i])

C5_Witness ==
    \E w \in Workers :
        /\ job[w].op = "subscribe" /\ pc[w] = "failed"
        /\ job[w].error = "StripeError"
        /\ job[w].calls = <<"Plan.list", "Subscription.create">>
        /\ AtStart(w).row.current_membership = "basic"
        /\ \E i \in 1..Len(ledger) : ledger[i].stripe_subscription_id # None

\* C6: when subscribe targets a non-initial tier on the non-downgrade path
\* and the gateway's plan list holds no plan named as the tier's
\* stripe_monthly_product_name, subscribe fails without a subscription
\* creation call and commits nothing: the stored user row, the ledger and
\* the gateway's subscriptions are unchanged.
C6_MissingPlanIsFatal ==
    \A w \in Workers :
        (job[w].op = "subscribe" /\ job[w].plan_found = Some(FALSE))
        => /\ pc[w] = "failed"
           /\ job[w].error # "none"
           /\ job[w].calls = <<"Plan.list">>
           /\ job[w].stripe_plan_id = None
           /\ job[w].stripe_subscription_id = None
           /\ job[w].user_write = None
           /\ NothingCommitted(w)
           /\ gw_subs = AtStart(w).gw_subs

C6_Witness ==
    \E w \in Workers :
        /\ job[w].op = "subscribe" /\ pc[w] = "failed"
        /\ job[w].plan_found = Some(FALSE)
        /\ job[w].tier = "pro"
        /\ AtStart(w).row.current_membership = "basic"

\* year and month of a date
YearMonth(d) == <<Year(d), Month(d)>>

\* C10: can_downgrade_membership is true exactly when
\* last_membership_downgrade_date is unset or its (year, month) differs from
\* today's; after a downgrade by subscribe it is false for the rest of that
\* calendar month and true from the next month on, also in the same month of
\* another year.
C10_OneDowngradePerCalendarMonth ==
    /\ \A u \in Users :
           LET last == users[u].last_membership_downgrade_date
               today == DateOf(now)
           IN  /\ can_downgrade_membership(last, today)
                    <=> (last = None \/ YearMonth(last[1]) # YearMonth(today))
               /\ last # None => NotAfter(last[1], today)
    /\ \A w \in Workers :
           (job[w].op = "subscribe" /\ pc[w] = "done" /\ job[w].downgrade)
           => LET last == users[job[w].user].last_membership_downgrade_date
              IN  /\ last # None
                  /\ last = job[w].obj.last_membership_downgrade_date
                  /\ YearMonth(last[1]) = YearMonth(DateOf(now))
                       => ~can_downgrade_membership(last, DateOf(now))

C10_Witness ==
    \E u \in Users :
        LET last == users[u].last_membership_downgrade_date
        IN  /\ last # None
            /\ Month(last[1]) = Month(DateOf(now))
            /\ Year(last[1]) # Year(DateOf(now))
            /\ can_downgrade_membership(last, DateOf(now))

\* C11: Membership.delete is rejected for every tier: the call raises an
\* error and removes nothing, so after any sequence of operations every tier
\* of the catalog still has its row.
C11_TierDeletionAlwaysRejected ==
    /\ Tiers \subseteq catalog
    /\ \A w \in Workers :
           job[w].op = "delete" =>
               /\ pc[w] = "failed"
               /\ job[w].error = "TypeError"

C11_Witness ==
    \E w \in Workers, u \in Users :
        /\ job[w].op = "delete" /\ pc[w] = "failed"
        /\ job[w].tier \in catalog
        /\ users[u].current_membership = job[w].tier
        /\ Len(ledger) >= 2

\* the customers the gateway holds for user u, as indexes
CustomersOf(customers, u) ==
    { i \in 1..Len(customers) : customers[i].user = u }

\* C15: for each user, over any interleaving of create_stripe_customer,
\* get_or_create_stripe_customer, create_or_update_stripe_customer and
\* add_card, at most one customer is created in the payment gateway, and no
\* customer is created for a user whose stripe_customer_token is set.
C15_OneCustomerPerUser ==
    [][ \A u \in Users :
            /\ Cardinality(CustomersOf(gw_customers', u)) <= 1
            /\ users[u].stripe_customer_token # None =>
                   CustomersOf(gw_customers', u) = CustomersOf(gw_customers, u)
      ]_vars

\* C12: the ledger is append-only over any sequence of operations
\* (subscribe, deletion of a user, attempts to delete a tier, token
\* refresh): every step leaves each MembershipHistory row in place with its
\* user, membership, created_at, stripe_subscription_id and stripe_plan_id.
C12_LedgerAppendOnly ==
    [][ /\ Len(ledger') >= Len(ledger)
        /\ SubSeq(ledger', 1, Len(ledger)) = ledger
      ]_vars

\* a subscribe call of worker w whose target is the non-initial tier the
\* user already holds: the second of two calls with the same target
Resubscribes(w) ==
    /\ job[w].op = "subscribe"
    /\ ~Membership[job[w].tier].is_initial
    /\ AtStart(w).row.current_membership = job[w].tier

\* the second call reaches the gateway and, when it succeeds, has added one
\* more ledger row of the tier and one more remote subscription
SecondCallRepeatsAll(w) ==
    /\ ~job[w].downgrade
    /\ pc[w] = "failed" => job[w].calls # <<>>
    /\ pc[w] = "done" =>
           /\ Len(ledger) = Len(AtStart(w).ledger) + 1
           /\ ledger[Len(ledger)].stripe_subscription_id # None
           /\ Len(gw_subs) = Len(AtStart(w).gw_subs) + 1
           /\ Cardinality({ i \in EntriesOf(job[w].user) :
                                ledger[i].membership = job[w].tier }) >= 2

PresentsReplaced(w) ==
    /\ job[w].op = "token"
    /\ job[w].presented # None
    /\ job[w].presented[1] # TextRead(w)

\* C14: after issue_refresh_token has replaced the stored text V by W, V is
\* blacklisted unless blacklisting raised TokenError, and a later
\* token-refresh request that presents V obtains no new pair of tokens and
\* does not change the stored text.
C14_ReplacedTokenUnusable ==
    \A w \in Workers :
        /\ ( /\ job[w].op = "token"
             /\ job[w].result = Some(TRUE)
             /\ TextRead(w) # EmptyText )
           => (TextRead(w) \in blacklist \/ job[w].token_error)
        /\ PresentsReplaced(w)
           => /\ job[w].result # Some(TRUE)
              /\ users[job[w].user].last_refresh_token # job[w].text

\* a finished evaluation of the pricing functions
Priced == probe.fn = "get_project_price_detailed" /\ probe.done

\* cents is the amount of hundredths / 100 cents rounded to a whole cent
RoundedToCent(cents, hundredths) ==
    /\ 100 * cents - hundredths <= 50
    /\ hundredths - 100 * cents <= 50

\* C16: get_project_price_detailed returns project_price = the schedule's
\* project_posting_price (0 if unset), concierge_price = the tier's
\* concierge_price if has_concierge_service else 0, vat_price = (project_price
\* + concierge_price) * tax_percentage / 100 and stripe_fee = (project_price
\* + concierge_price) * stripe_percentage / 100 if add_stripe_fee else 0,
\* each rounded to 2 decimals; with both flags false concierge_price and
\* stripe_fee are 0; for the schedule (100.00, 21, 3), concierge 50.00 and
\* both flags true the result is (100.00, 50.00, 31.50, 4.50) and
\* get_project_posting_price is 186.00.
C16_PriceDetail ==
    Priced =>
        LET fee == probe.payment_fee
            project == IF fee.project_posting_price = None
                       THEN 0
                       ELSE fee.project_posting_price[1]
            concierge == IF /\ probe.has_concierge_service
                            /\ probe.self.concierge_price # None
                         THEN probe.self.concierge_price[1]
                         ELSE 0
        IN  /\ probe.value.project_price = project
            /\ probe.value.concierge_price = concierge
            /\ RoundedToCent(probe.value.vat_price,
                             (project + concierge) * fee.tax_percentage)
            /\ IF probe.add_stripe_fee
               THEN RoundedToCent(
                        probe.value.stripe_fee,
                        (project + concierge) * fee.stripe_percentage)
               ELSE probe.value.stripe_fee = 0
            /\ (~probe.has_concierge_service /\ ~probe.add_stripe_fee)
               => /\ probe.value.concierge_price = 0
                  /\ probe.value.stripe_fee = 0
            /\ ( /\ fee = [ project_posting_price |-> Some(10000),
                            tax_percentage |-> 21, stripe_percentage |-> 3 ]
                 /\ probe.self.concierge_price = Some(5000)
                 /\ probe.has_concierge_service /\ probe.add_stripe_fee )
               => /\ probe.value =
                        [ project_price |-> 10000, concierge_price |-> 5000,
                          vat_price |-> 3150, stripe_fee |-> 450 ]
                  /\ probe.total = 18600

C16_Witness ==
    /\ Priced
    /\ probe.payment_fee = [ project_posting_price |-> Some(10000),
                             tax_percentage |-> 21, stripe_percentage |-> 3 ]
    /\ probe.self.concierge_price = Some(5000)
    /\ probe.has_concierge_service /\ probe.add_stripe_fee
    /\ probe.total = 18600

\* the step is a gateway call of worker w
CallsGateway(w) == job'[w].calls # job[w].calls

\* C17 as stated: one subscribe call makes at most one call to the payment
\* gateway, on every path.
C17_AtMostOneGatewayCall_AsStated ==
    \A w \in Workers : job[w].op = "subscribe" => Len(job[w].calls) <= 1

\* C17, amended: one subscribe call makes no gateway call on the downgrade
\* path and for an initial tier, and on the paid non-downgrade path at most
\* one plan listing followed by at most one subscription creation, which
\* creates at most one remote subscription.
C17_AtMostOneCallOfEachKind ==
    \A w \in Workers :
        job[w].op = "subscribe" =>
            /\ job[w].calls \in
                   { <<>>, <<"Plan.list">>,
                     <<"Plan.list", "Subscription.create">> }
            /\ (job[w].downgrade \/ Membership[job[w].tier].is_initial)
               => job[w].calls = <<>>
            /\ Len(gw_subs) <= Len(AtStart(w).gw_subs) + 1
            /\ Len(gw_subs) > Len(AtStart(w).gw_subs)
               => job[w].calls = <<"Plan.list", "Subscription.create">>

C17_Witness ==
    \E w \in Workers :
        /\ job[w].op = "subscribe" /\ pc[w] = "done"
        /\ job[w].calls = <<"Plan.list", "Subscription.create">>
        /\ job[w].tier = "basic"
        /\ AtStart(w).row.current_membership = "free"

\* C18: subscribe holds no database transaction open while a gateway call
\* is in flight: every gateway call of a subscribe call is made before the
\* transaction that writes the user row and the ledger entry has begun.
C18_NoTransactionAcrossGatewayCall ==
    [][ \A w \in Workers : CallsGateway(w) => ~TransactionOpen(w) ]_vars

\* C19: every subscription-creation request subscribe sends to the payment
\* gateway carries metadata with object_type = membership and the uuid of
\* the target tier.
C19_RequestCarriesMetadata ==
    \A i \in 1..Len(gw_subs) :
        LET metadata == gw_subs[i].request.metadata
        IN  /\ metadata # None
            /\ metadata[1].object_type = "membership"
            /\ metadata[1].uuid \in Tiers

\* the step in which worker w leaves the classification of its call
Classifies(w) ==
    /\ job[w].op = "subscribe"
    /\ pc[w] = "loaded" /\ pc'[w] # "loaded"

\* C20: when is_downgrade(user) is true, subscribe takes the downgrade
\* path: it sets last_membership_downgrade_date to the date of the day,
\* stores it with current_membership = the target tier, makes no gateway
\* call and appends a ledger entry whose stripe_subscription_id and
\* stripe_plan_id are both null.
C20_DowngradePath ==
    [][ \A w \in Workers :
            /\ ( /\ Classifies(w)
                 /\ is_downgrade(Membership[job[w].tier],
                                 CurrentMembership(job[w].obj)) )
               => /\ job'[w].downgrade
                  /\ job'[w].obj.last_membership_downgrade_date =
                         Some(DateOf(now))
                  /\ pc'[w] = "save"
            /\ (Succeeds(w) /\ job[w].downgrade)
               => /\ users'[job[w].user].last_membership_downgrade_date =
                         job[w].obj.last_membership_downgrade_date
                  /\ users'[job[w].user].current_membership = job[w].tier
                  /\ job[w].calls = <<>>
                  /\ gw_subs' = AtStart(w).gw_subs
                  /\ Len(ledger') = Len(ledger) + 1
                  /\ ledger'[Len(ledger')].user = job[w].user
                  /\ ledger'[Len(ledger')].membership = job[w].tier
                  /\ ledger'[Len(ledger')].stripe_subscription_id = None
                  /\ ledger'[Len(ledger')].stripe_plan_id = None
      ]_vars

C20_Witness ==
    \E w \in Workers :
        /\ job[w].op = "subscribe" /\ pc[w] = "done" /\ job[w].downgrade
        /\ AtStart(w).row.current_membership = "pro"
        /\ job[w].tier = "basic"
        /\ AtStart(w).row.last_membership_downgrade_date = None
        /\ users[job[w].user].last_membership_downgrade_date =
               Some(<<2024, 3, 20>>)
        /\ ledger[Len(ledger)].stripe_subscription_id = None
        /\ ledger[Len(ledger) - 1].stripe_subscription_id # None

\* C21: a downgrade by a freelancer leaves every package of that user's
\* profile with is_active = false; subscribe changes no package on a
\* non-downgrade path or for a user of another profile type, and never a
\* package of another user.
C21_DowngradeDeactivatesPackages ==
    [][ /\ \A w \in Workers :
               Succeeds(w) =>
                   LET u == job[w].user
                   IN  /\ IF /\ job[w].downgrade
                             /\ users[u].profile_type = "freelancer"
                          THEN /\ Len(packages'[u]) = Len(packages[u])
                               /\ \A i \in 1..Len(packages'[u]) :
                                      packages'[u][i] = FALSE
                          ELSE packages'[u] = packages[u]
                       /\ \A v \in Users \ {u} : packages'[v] = packages[v]
        /\ packages' # packages => \E w \in Workers : Succeeds(w)
      ]_vars

C21_Witness ==
    \E w \in Workers :
        /\ job[w].op = "subscribe" /\ pc[w] = "done" /\ job[w].downgrade
        /\ users[job[w].user].profile_type = "freelancer"
        /\ packages[job[w].user] = <<FALSE, FALSE>>
        /\ \E v \in Users :
               /\ users[v].profile_type = "client"
               /\ users[v].current_membership # NoTier
               /\ packages[v] = <<TRUE, FALSE>>

\* C22: the ledger entry a subscribe call writes has stripe_plan_id and
\* stripe_subscription_id set if and only if the call created a remote
\* subscription; then stripe_plan_id is the id of a gateway plan named as
\* the tier's stripe_monthly_product_name, the plan the subscription was
\* created for, and stripe_subscription_id is the id the creation returned.
\* Entries of downgrades and of initial tiers have both ids null.
C22_LedgerIdsIffRemoteSubscription ==
    [][ \A w \in Workers :
            Succeeds(w) =>
                LET row == ledger'[Len(ledger')]
                    self == Membership[job[w].tier]
                    created == Len(gw_subs) > Len(AtStart(w).gw_subs)
                    remote == gw_subs[Len(gw_subs)]
                IN  /\ row.stripe_subscription_id # None <=> created
                    /\ row.stripe_plan_id # None <=> created
                    /\ created =>
                           /\ row.stripe_subscription_id = Some(remote.id)
                           /\ row.stripe_plan_id = Some(remote.request.plan)
                           /\ remote.request.customer = row.user
                           /\ \E plan \in Plans :
                                  /\ plan.id = row.stripe_plan_id[1]
                                  /\ Some(plan.name) =
                                         self.stripe_monthly_product_name
                    /\ (job[w].downgrade \/ self.is_initial) => ~created
      ]_vars

C22_Witness ==
    \E w \in Workers :
        /\ job[w].op = "subscribe" /\ pc[w] = "done"
        /\ job[w].tier = "pro"
        /\ AtStart(w).row.current_membership = "basic"
        /\ ledger[Len(ledger)].stripe_plan_id = Some("plan_pro")
        /\ ledger[Len(ledger)].stripe_subscription_id = Some(2)
        /\ ledger[1].stripe_subscription_id = None

\* two subscribe calls for the same user that loaded the same stored state
\* and both went through the creation of a remote subscription
RacingSubscribes(w1, w2) ==
    /\ w1 # w2
    /\ job[w1].op = "subscribe" /\ job[w2].op = "subscribe"
    /\ job[w1].user = job[w2].user
    /\ AtStart(w1) = AtStart(w2)
    /\ job[w1].stripe_subscription_id # None
    /\ job[w2].stripe_subscription_id # None

\* C23: two concurrent subscribe calls for the same user that both read the
\* same current tier and target a paid tier are not kept from completing:
\* once both have completed, the ledger holds two new entries and the
\* gateway two new subscriptions, one of each per call.
C23_RacingSubscribesBothComplete ==
    \A w1, w2 \in Workers :
        (RacingSubscribes(w1, w2) /\ pc[w1] = "done" /\ pc[w2] = "done") =>
            LET at == AtStart(w1)
                rows == { i \in Len(at.ledger) + 1 .. Len(ledger) :
                            ledger[i].user = job[w1].user }
                subs == { i \in Len(at.gw_subs) + 1 .. Len(gw_subs) :
                            gw_subs[i].request.customer = job[w1].user }
            IN  /\ Cardinality(rows) = 2
                /\ Cardinality(subs) = 2
                /\ job[w1].stripe_subscription_id # job[w2].stripe_subscription_id
                /\ \A w \in {w1, w2} :
                       \E i \in rows :
                           /\ ledger[i].stripe_subscription_id =
                                  job[w].stripe_subscription_id
                           /\ ledger[i].membership = job[w].tier

C23_Witness ==
    \E w1, w2 \in Workers :
        /\ RacingSubscribes(w1, w2)
        /\ pc[w1] = "done" /\ pc[w2] = "done"
        /\ AtStart(w1).row.current_membership = "free"
        /\ job[w1].tier = "basic" /\ job[w2].tier = "pro"
        /\ Len(gw_subs) = 2 /\ Len(ledger) = Cardinality(Users) + 2

\* C24: when the remote subscription was created and a later local write
\* of subscribe fails, the user update and the ledger insert are rolled
\* back together: the stored user row and the ledger are as before the
\* call, and the gateway holds the new subscription, which no ledger entry
\* references.
C24_LocalFailureLeavesOrphanSubscription ==
    \A w \in Workers :
        ( /\ job[w].op = "subscribe" /\ pc[w] = "failed"
          /\ job[w].error = "DatabaseError"
          /\ job[w].stripe_subscription_id # None )
        => /\ NothingCommitted(w)
           /\ job[w].user_write = None
           /\ lock[job[w].user] = "free"
           /\ Len(gw_subs) = Len(AtStart(w).gw_subs) + 1
           /\ gw_subs[Len(gw_subs)].id = job[w].stripe_subscription_id[1]
           /\ gw_subs[Len(gw_subs)].request.customer = job[w].user
           /\ \A i \in 1..Len(ledger) :
                  ledger[i].stripe_subscription_id #
                      job[w].stripe_subscription_id

C24_Witness ==
    \E w \in Workers :
        /\ job[w].op = "subscribe" /\ pc[w] = "failed"
        /\ job[w].error = "DatabaseError"
        /\ job[w].stripe_subscription_id = Some(1)
        /\ job[w].obj.current_membership = "basic"
        /\ users[job[w].user].current_membership = "free"
        /\ Len(gw_subs) = 1 /\ Len(ledger) = 1

\* C25: subscribe does not consult can_downgrade_membership.  A call
\* classified as a downgrade goes on to the save whatever the user's
\* last_membership_downgrade_date is, makes no gateway call, and can fail
\* only by a database error; so a user can be downgraded more than once in
\* one calendar month.
C25_DowngradeIgnoresCanDowngrade ==
    [][ \A w \in Workers :
            job[w].op = "subscribe" =>
                LET self == Membership[job[w].tier]
                    current == CurrentMembership(job[w].obj)
                IN  /\ ( /\ pc[w] = "loaded" /\ pc'[w] # "loaded"
                         /\ ~is_downgrade_raises(self, current)
                         /\ is_downgrade(self, current) )
                       => /\ pc'[w] = "save"
                          /\ job'[w].downgrade
                          /\ job'[w].error = "none"
                          /\ job'[w].calls = <<>>
                    /\ (job[w].downgrade /\ pc[w] # "failed" /\ pc'[w] = "failed")
                       => job'[w].error = "DatabaseError"
      ]_vars

C25_Witness ==
    \E w \in Workers :
        LET before == AtStart(w).row.last_membership_downgrade_date
            after == users[job[w].user].last_membership_downgrade_date
        IN  /\ job[w].op = "subscribe" /\ pc[w] = "done" /\ job[w].downgrade
            /\ before # None
            /\ ~can_downgrade_membership(before, after[1])
            /\ YearMonth(before[1]) = YearMonth(after[1])
            /\ Cardinality({ i \in EntriesOf(job[w].user) :
                               /\ ledger[i].stripe_subscription_id = None
                               /\ YearMonth(DateOf(ledger[i].created_at)) =
                                      YearMonth(after[1]) }) >= 2

\* C26: whenever issue_refresh_token returns false, the login, login-as
\* and refresh endpoints report the conflict (409 or
\* ConflictValidationError), hand out no tokens and do not call
\* issue_refresh_token again; tokens are handed out only when it returned
\* true, and then they are the tokens of that call.
C26_ConflictHandsOutNoTokens ==
    \A w \in Workers :
        job[w].op = "token" =>
            /\ job[w].issue_calls <= 1
            /\ pc[w] # "done" => job[w].response = None
            /\ pc[w] = "done" =>
                   /\ job[w].response # None
                   /\ job[w].issue_calls = 1
                   /\ job[w].result = Some(FALSE) =>
                          /\ job[w].response[1].outcome \in
                                 {"409", "ConflictValidationError"}
                          /\ job[w].response[1].tokens = None
                   /\ job[w].response[1].tokens # None =>
                          /\ job[w].result = Some(TRUE)
                          /\ job[w].response[1].outcome = "200"
                          /\ job[w].response[1].tokens = Some(job[w].text)

C26_Witness ==
    \E w1, w2 \in Workers :
        /\ job[w1].op = "token" /\ pc[w1] = "done"
        /\ job[w2].op = "token" /\ pc[w2] = "done"
        /\ job[w1].user = job[w2].user
        /\ job[w1].presented = None
        /\ job[w1].response = Some([outcome |-> "409", tokens |-> None])
        /\ job[w2].response[1].tokens = Some(job[w2].text)
        /\ users[job[w1].user].last_refresh_token = job[w2].text

\* the step in which create_user returns the user to its caller
CreateUserReturns(w) ==
    /\ job[w].caller = "create_user"
    /\ pc[w] # "done"
    /\ pc'[w] = "done"

\* C27: when create_user returns and an initial tier exists for the new
\* user's profile_type, the user's current_membership is that tier, the
\* ledger holds exactly one entry of the user, for that tier and with both
\* stripe ids null, no gateway call was made and
\* last_membership_downgrade_date is unset; when no initial tier exists
\* for the profile type, the user has a row with current_membership null
\* and no ledger entry.
C27_CreateUserStartsOnInitialTier ==
    [][ \A w \in Workers :
            CreateUserReturns(w) =>
                LET u == job[w].user
                    row == users'[u]
                    initial == { t \in Tiers :
                                   /\ Membership[t].is_initial
                                   /\ Membership[t].profile_type =
                                          row.profile_type }
                    entries == { i \in 1..Len(ledger') : ledger'[i].user = u }
                IN  /\ row.exists
                    /\ row.last_membership_downgrade_date = None
                    /\ job'[w].calls = <<>>
                    /\ gw_subs' = AtStart(w).gw_subs
                    /\ IF initial # {}
                       THEN /\ row.current_membership \in initial
                            /\ Cardinality(entries) = 1
                            /\ \A i \in entries :
                                   /\ ledger'[i].membership =
                                          row.current_membership
                                   /\ ledger'[i].stripe_plan_id = None
                                   /\ ledger'[i].stripe_subscription_id = None
                       ELSE /\ row.current_membership = NoTier
                            /\ entries = {}
      ]_vars

C27_Witness ==
    \E w \in Workers :
        /\ job[w].caller = "create_user" /\ pc[w] = "done"
        /\ job[w].op = "create_user"
        /\ users[job[w].user].profile_type = "freelancer"
        /\ users[job[w].user].current_membership = NoTier
        /\ \E v \in Users :
               /\ users[v].profile_type = "client"
               /\ users[v].current_membership = "free"
               /\ Cardinality(EntriesOf(v)) = 1
               /\ EntriesOf(job[w].user) = {}

\* the remote subscriptions created for user u, as they are in the gateway
SubscriptionsOf(subs, u) ==
    SelectSeq(subs, LAMBDA sub : sub.request.customer = u)

\* C28: no step of subscribe cancels or modifies a remote subscription:
\* in every step the remote subscriptions of each user are kept as they
\* are, with at most one new one appended, and only by a call for that
\* user; so the remote subscriptions of a user only grow.
C28_RemoteSubscriptionsOnlyGrow ==
    [][ \A u \in Users :
            LET old == SubscriptionsOf(gw_subs, u)
                new == SubscriptionsOf(gw_subs', u)
            IN  /\ Len(new) \in {Len(old), Len(old) + 1}
                /\ SubSeq(new, 1, Len(old)) = old
                /\ Len(new) > Len(old) =>
                       \E w \in Workers :
                           /\ job[w].op = "subscribe" /\ job[w].user = u
                           /\ pc[w] = "sub_create"
                           /\ ~job[w].downgrade
      ]_vars

C28_Witness ==
    \E w \in Workers :
        LET u == job[w].user
        IN  /\ job[w].op = "subscribe" /\ pc[w] = "done"
            /\ Len(SubscriptionsOf(gw_subs, u)) = 2
            /\ Cardinality(EntriesOf(u)) = 3
            /\ \E i, j, k \in EntriesOf(u) :
                   /\ i < j /\ j < k
                   /\ ledger[i].stripe_subscription_id # None
                   /\ ledger[j].stripe_subscription_id = None
                   /\ ledger[k].stripe_subscription_id # None
            /\ users[u].current_membership = ledger[Latest(EntriesOf(u))].membership

\* C29: subscribe writes only the current_membership column of the user
\* row, plus last_membership_downgrade_date on a downgrade.  The commit of
\* a subscribe call leaves every other stored column as it is stored at
\* that moment, whatever the user object of the call holds, so a
\* last_refresh_token or stripe_customer_token stored after the call
\* loaded its user is not overwritten; on a non-downgrade path the stored
\* last_membership_downgrade_date is unchanged; no other step of subscribe
\* writes the user table.
C29_SubscribeWritesItsColumnsOnly ==
    [][ \A w \in Workers :
            job[w].op = "subscribe" /\ pc'[w] # pc[w] =>
                IF pc'[w] = "done"
                THEN LET u == job[w].user
                     IN  /\ users'[u] =
                                [users[u] EXCEPT
                                   !.current_membership = job[w].tier,
                                   !.last_membership_downgrade_date =
                                       IF job[w].downgrade
                                       THEN Some(DateOf(now))
                                       ELSE @]
                         /\ \A v \in Users \ {u} : users'[v] = users[v]
                ELSE users' = users
      ]_vars

C29_Witness ==
    \E w \in Workers :
        LET u == job[w].user
        IN  /\ job[w].op = "subscribe" /\ pc[w] = "done"
            /\ job[w].obj.last_refresh_token # users[u].last_refresh_token
            /\ users[u].last_refresh_token # EmptyText
            /\ job[w].obj.stripe_customer_token = None
            /\ users[u].stripe_customer_token # None
            /\ users[u].current_membership = job[w].tier

\* C30: when the user's current tier and the target tier are both
\* non-initial and the price_month of either is unset, is_downgrade raises
\* instead of returning a boolean; the subscribe call fails with that
\* error at its classification, makes no gateway call and commits nothing:
\* the stored user row, the ledger and the gateway's subscriptions are as
\* before the call.
C30_UnsetPriceFailsBeforeAnyEffect ==
    \A w \in Workers :
        job[w].op = "subscribe" =>
            LET target == Membership[job[w].tier]
                held == AtStart(w).row.current_membership
            IN  ( /\ held # NoTier
                  /\ ~Membership[held].is_initial
                  /\ ~target.is_initial
                  /\ \/ target.price_month = None
                     \/ Membership[held].price_month = None )
                => /\ is_downgrade_raises(target, Some(Membership[held]))
                   /\ pc[w] \in {"loaded", "failed"}
                   /\ pc[w] = "failed" => job[w].error = "TypeError"
                   /\ job[w].calls = <<>>
                   /\ job[w].user_write = None
                   /\ ~job[w].downgrade
                   /\ NothingCommitted(w)
                   /\ gw_subs = AtStart(w).gw_subs

C30_Witness ==
    \E w \in Workers :
        /\ job[w].op = "subscribe" /\ pc[w] = "failed"
        /\ job[w].error = "TypeError"
        /\ job[w].tier = "legacy"
        /\ AtStart(w).row.current_membership = "pro"
        /\ users[job[w].user].current_membership = "pro"
        /\ job[w].calls = <<>>
        /\ Len(ledger) = 1

====
